---- MODULE Spec2Model ----
(***************************************************************************)
(* A model of password.py: generate_password, generate_multiple_passwords, *)
(* check_password_strength and the interactive loop main().                *)
(*                                                                         *)
(* A character is a one-character string and a Python str is a sequence of *)
(* characters, so that len(), indexing, concatenation and membership are   *)
(* the sequence operations.  Two specifications share the functions:       *)
(*   Spec      an arbitrary caller of the three functions;                 *)
(*   MainSpec  the interactive loop, one step per input() call.            *)
(***************************************************************************)
EXTENDS Integers, Sequences, FiniteSets, TLC

VARIABLES
    ret,           \* the last call of a function by the caller and what it returned
    random_state,  \* the shared random source: how many values it has given out
    memo,          \* history: the first scoring call's input and report
    pc,            \* main(): the input() call the loop is waiting at
    locals,        \* main(): length, the four flags and count
    event,         \* main(): what the last input() call ended in
    output         \* main(): what the last iteration printed

vars == <<ret, random_state, memo, pc, locals, event, output>>

(***************************************************************************)
(* Bounds of the model.                                                    *)
(***************************************************************************)
\* The longest password length a caller or the user asks for.
MaxLen == 2
\* The largest batch count a caller or the user asks for.
MaxCount == 2
\* How many values the random source gives out in one run.
MaxStream == 3
\* The random source's resolution: it yields the values 0 .. RandRes-1,
\* standing for the fractions k/RandRes of [0, 1).
RandRes == 5

(***************************************************************************)
(* The alphabets.                                                          *)
(***************************************************************************)
ascii_lowercase ==
    <<"a","b","c","d","e","f","g","h","i","j","k","l","m",
      "n","o","p","q","r","s","t","u","v","w","x","y","z">>

ascii_uppercase ==
    <<"A","B","C","D","E","F","G","H","I","J","K","L","M",
      "N","O","P","Q","R","S","T","U","V","W","X","Y","Z">>

digits ==
    <<"0","1","2","3","4","5","6","7","8","9">>

\* The literal with its last character lost.
pool_symbols_truncated ==
    <<"!","@","#","$","%","^","&","*","(",")","_","+","-",
      "=","[","]","{","}","|",";",":",",",".","<",">">>

\* The literal of generate_password: "!@#$%^&*()_+-=[]{}|;:,.<>?"
pool_symbols ==
    <<"!","@","#","$","%","^","&","*","(",")","_","+","-",
      "=","[","]","{","}","|",";",":",",",".","<",">","?">>

\* The literal of check_password_strength: "!@#$%^&*()_+-=[]{}|;:,.<>?"
strength_symbols ==
    <<"!","@","#","$","%","^","&","*","(",")","_","+","-",
      "=","[","]","{","}","|",";",":",",",".","<",">","?">>

Range(s) == {s[i] : i \in 1..Len(s)}

Max(a, b) == IF a >= b THEN a ELSE b

\* str.islower(), str.isupper(), str.isdigit() of one ASCII character.
islower(c) == c \in Range(ascii_lowercase)
isupper(c) == c \in Range(ascii_uppercase)
isdigit(c) == c \in Range(digits)

(***************************************************************************)
(* The random source.  random.choice(seq) is seq[k] for a k the generator  *)
(* picks in 0 .. len(seq)-1; the value r the generator yields is scaled to *)
(* the sequence's length.                                                  *)
(***************************************************************************)
RandomValues == 0..(RandRes - 1)

choice(seq, r) == seq[((r * Len(seq)) \div RandRes) + 1]

\* The values drawn by n consecutive calls of random.choice.
DrawSeqs(n) == [1..n -> RandomValues]

(***************************************************************************)
(* generate_password                                                       *)
(***************************************************************************)
\* The pool with the uppercase letters added for either letter flag.
character_pool_either_case(use_uppercase, use_lowercase, use_digits, use_symbols) ==
       (IF use_lowercase THEN ascii_lowercase ELSE <<>>)
    \o (IF use_uppercase \/ use_lowercase THEN ascii_uppercase ELSE <<>>)
    \o (IF use_digits THEN digits ELSE <<>>)
    \o (IF use_symbols THEN pool_symbols ELSE <<>>)

\* The pool built in the order of the parameters: uppercase first.
character_pool_parameter_order(use_uppercase, use_lowercase, use_digits, use_symbols) ==
       (IF use_uppercase THEN ascii_uppercase ELSE <<>>)
    \o (IF use_lowercase THEN ascii_lowercase ELSE <<>>)
    \o (IF use_digits THEN digits ELSE <<>>)
    \o (IF use_symbols THEN pool_symbols ELSE <<>>)

\* The pool as the four if-statements build it.
character_pool(use_uppercase, use_lowercase, use_digits, use_symbols) ==
       (IF use_lowercase THEN ascii_lowercase ELSE <<>>)
    \o (IF use_uppercase THEN ascii_uppercase ELSE <<>>)
    \o (IF use_digits THEN digits ELSE <<>>)
    \o (IF use_symbols THEN pool_symbols ELSE <<>>)

\* How many times generate_password calls random.choice: range(length) is
\* empty for length <= 0, and the raise comes before the first draw.
draws_of_password(length, use_uppercase, use_lowercase, use_digits, use_symbols) ==
    IF character_pool(use_uppercase, use_lowercase, use_digits, use_symbols) = <<>>
    THEN 0
    ELSE Max(length, 0)

\* generate_password with the empty pool noticed only when a character is drawn.
generate_password_lazy_check(length, use_uppercase, use_lowercase, use_digits, use_symbols, draws) ==
    LET pool == character_pool(use_uppercase, use_lowercase, use_digits, use_symbols)
    IN  IF pool = <<>> /\ length > 0
        THEN [raised |-> TRUE, character_pool |-> pool, password |-> <<>>]
        ELSE [raised |-> FALSE, character_pool |-> pool,
              password |-> [i \in 1..(IF pool = <<>> THEN 0 ELSE Max(length, 0)) |->
                               choice(pool, draws[i])]]

\* The whole function; draws are the values the random source yields to it.
\* raised: the function ended in ValueError("At least one character type
\* must be selected!") and returned nothing.
generate_password(length, use_uppercase, use_lowercase, use_digits, use_symbols, draws) ==
    LET pool == character_pool(use_uppercase, use_lowercase, use_digits, use_symbols)
    IN  IF pool = <<>>
        THEN [raised |-> TRUE, character_pool |-> pool, password |-> <<>>]
        ELSE [raised |-> FALSE, character_pool |-> pool,
              password |-> [i \in 1..Max(length, 0) |-> choice(pool, draws[i])]]

(***************************************************************************)
(* generate_multiple_passwords                                             *)
(***************************************************************************)
\* The keyword arguments main() passes, as a record.
Kwargs == [use_uppercase : BOOLEAN, use_lowercase : BOOLEAN,
           use_digits : BOOLEAN, use_symbols : BOOLEAN]

\* How many times the loop calls random.choice in all.
draws_of_batch(count, length, kwargs) ==
    Max(count, 0) * draws_of_password(length, kwargs.use_uppercase,
                        kwargs.use_lowercase, kwargs.use_digits, kwargs.use_symbols)

\* The values drawn by a batch: one sequence of draws per password.
BatchDraws(count, length, kwargs) ==
    [1..Max(count, 0) ->
        DrawSeqs(draws_of_password(length, kwargs.use_uppercase,
                     kwargs.use_lowercase, kwargs.use_digits, kwargs.use_symbols))]

\* generate_multiple_passwords with the loop one iteration short.
generate_multiple_passwords_short(count, length, kwargs, draws) ==
    LET each == [i \in 1..Max(count - 1, 0) |->
                    generate_password(length, kwargs.use_uppercase,
                        kwargs.use_lowercase, kwargs.use_digits,
                        kwargs.use_symbols, draws[i])]
    IN  IF \E i \in 1..Max(count - 1, 0) : each[i].raised
        THEN [raised |-> TRUE, passwords |-> <<>>]
        ELSE [raised |-> FALSE,
              passwords |-> [i \in 1..Max(count - 1, 0) |-> each[i].password]]

\* The whole function: range(count) iterations, each appending one
\* generate_password(length, **kwargs); an iteration's ValueError ends the call.
generate_multiple_passwords(count, length, kwargs, draws) ==
    LET each == [i \in 1..Max(count, 0) |->
                    generate_password(length, kwargs.use_uppercase,
                        kwargs.use_lowercase, kwargs.use_digits,
                        kwargs.use_symbols, draws[i])]
    IN  IF \E i \in 1..Max(count, 0) : each[i].raised
        THEN [raised |-> TRUE, passwords |-> <<>>]
        ELSE [raised |-> FALSE,
              passwords |-> [i \in 1..Max(count, 0) |-> each[i].password]]

(***************************************************************************)
(* check_password_strength                                                 *)
(***************************************************************************)
\* The dict strength_levels.
strength_levels == (1 :> "Weak") @@ (2 :> "Fair") @@ (3 :> "Good") @@ (4 :> "Strong")

\* strength_levels.get(score, "Very Weak")
strength_of(score) ==
    IF score \in DOMAIN strength_levels THEN strength_levels[score] ELSE "Very Weak"

\* sum() of a list of bools.
sum(bools) == Cardinality({i \in 1..Len(bools) : bools[i]})

\* check_password_strength with the symbols left out of the score.
check_password_strength_no_symbols(password) ==
    LET has_lower  == \E i \in 1..Len(password) : islower(password[i])
        has_upper  == \E i \in 1..Len(password) : isupper(password[i])
        has_digit  == \E i \in 1..Len(password) : isdigit(password[i])
        has_symbol == \E i \in 1..Len(password) : password[i] \in Range(strength_symbols)
        score      == sum(<<has_lower, has_upper, has_digit>>)
    IN  [score |-> score,
         strength |-> strength_of(score),
         length |-> Len(password),
         has_lowercase |-> has_lower,
         has_uppercase |-> has_upper,
         has_digits |-> has_digit,
         has_symbols |-> has_symbol]

\* check_password_strength reading the shared random source: a bonus point
\* that depends on how far the generator has run.
check_password_strength_stateful(password) ==
    LET has_lower  == \E i \in 1..Len(password) : islower(password[i])
        has_upper  == \E i \in 1..Len(password) : isupper(password[i])
        has_digit  == \E i \in 1..Len(password) : isdigit(password[i])
        has_symbol == \E i \in 1..Len(password) : password[i] \in Range(strength_symbols)
        score      == sum(<<has_lower, has_upper, has_digit, has_symbol>>)
    IN  [score |-> score,
         strength |-> strength_of(score),
         length |-> Len(password) + (random_state % 2),
         has_lowercase |-> has_lower,
         has_uppercase |-> has_upper,
         has_digits |-> has_digit,
         has_symbols |-> has_symbol]

check_password_strength(password) ==
    LET has_lower  == \E i \in 1..Len(password) : islower(password[i])
        has_upper  == \E i \in 1..Len(password) : isupper(password[i])
        has_digit  == \E i \in 1..Len(password) : isdigit(password[i])
        has_symbol == \E i \in 1..Len(password) : password[i] \in Range(strength_symbols)
        score      == sum(<<has_lower, has_upper, has_digit, has_symbol>>)
    IN  [score |-> score,
         strength |-> strength_of(score),
         length |-> Len(password),
         has_lowercase |-> has_lower,
         has_uppercase |-> has_upper,
         has_digits |-> has_digit,
         has_symbols |-> has_symbol]

(***************************************************************************)
(* The state.                                                              *)
(***************************************************************************)
NoKwargs == [use_uppercase |-> FALSE, use_lowercase |-> FALSE,
             use_digits |-> FALSE, use_symbols |-> FALSE]

NoReport == [score |-> 0, strength |-> "", length |-> 0,
             has_lowercase |-> FALSE, has_uppercase |-> FALSE,
             has_digits |-> FALSE, has_symbols |-> FALSE]

\* No call's result is held by the caller.
Idle == [op |-> "idle", count |-> 0, length |-> 0, kwargs |-> NoKwargs,
         input |-> <<>>, raised |-> FALSE, character_pool |-> <<>>,
         password |-> <<>>, passwords |-> <<>>, report |-> NoReport]

NoMemo == [set |-> FALSE, input |-> <<>>, report |-> NoReport, at |-> 0]

\* main()'s locals before an iteration has assigned them.
FreshLocals == [length |-> 0, use_lowercase |-> FALSE, use_uppercase |-> FALSE,
                use_digits |-> FALSE, use_symbols |-> FALSE, count |-> 0]

NoOutput == [kind |-> "banner", lines |-> <<>>]

Init ==
    /\ ret = Idle
    /\ random_state = 0
    /\ memo = NoMemo
    /\ pc = "length"
    /\ locals = FreshLocals
    /\ event = "none"
    /\ output = NoOutput

main_vars == <<pc, locals, event, output>>

(***************************************************************************)
(* Spec: a caller of the three functions.  Each action is one whole call.  *)
(***************************************************************************)
\* The arguments a caller passes.
Lengths == (-1)..MaxLen
Counts == (-1)..MaxCount

\* The strings a caller has scored: the empty string, "abc123", "Ab1!",
\* " ~" (characters of no class), "aZ", "Q7" and "_".
StrengthInputs ==
    { <<>>,
      <<"a","b","c","1","2","3">>,
      <<"A","b","1","!">>,
      <<" ","~">>,
      <<"a","Z">>,
      <<"Q","7">>,
      <<"_">> }

\* generate_password(length, use_uppercase, use_lowercase, use_digits, use_symbols)
CallGeneratePassword ==
    /\ ret.op = "idle"
    /\ \E length \in Lengths, k \in Kwargs :
        LET n == draws_of_password(length, k.use_uppercase, k.use_lowercase,
                                   k.use_digits, k.use_symbols)
        IN  /\ random_state + n <= MaxStream
            /\ \E draws \in DrawSeqs(n) :
                LET r == generate_password(length, k.use_uppercase, k.use_lowercase,
                                           k.use_digits, k.use_symbols, draws)
                IN  ret' = [Idle EXCEPT !.op = "generate_password",
                                        !.length = length,
                                        !.kwargs = k,
                                        !.raised = r.raised,
                                        !.character_pool = r.character_pool,
                                        !.password = r.password]
            /\ random_state' = random_state + n
    /\ UNCHANGED <<memo, main_vars>>

\* generate_multiple_passwords(count, length, **kwargs)
CallGenerateMultiplePasswords ==
    /\ ret.op = "idle"
    /\ \E count \in Counts, length \in Lengths, k \in Kwargs :
        LET n == draws_of_batch(count, length, k)
        IN  /\ random_state + n <= MaxStream
            /\ \E draws \in BatchDraws(count, length, k) :
                LET r == generate_multiple_passwords(count, length, k, draws)
                IN  ret' = [Idle EXCEPT !.op = "generate_multiple_passwords",
                                        !.count = count,
                                        !.length = length,
                                        !.kwargs = k,
                                        !.raised = r.raised,
                                        !.passwords = r.passwords]
            /\ random_state' = random_state + n
    /\ UNCHANGED <<memo, main_vars>>

\* check_password_strength(password)
CallCheckPasswordStrength ==
    /\ ret.op = "idle"
    /\ \E password \in StrengthInputs :
        LET r == check_password_strength(password)
        IN  /\ ret' = [Idle EXCEPT !.op = "check_password_strength",
                                   !.input = password,
                                   !.report = r]
            /\ memo' = IF memo.set THEN memo
                       ELSE [set |-> TRUE, input |-> password, report |-> r,
                             at |-> random_state]
    /\ UNCHANGED <<random_state, main_vars>>

\* The caller drops what the last call returned.
Return ==
    /\ ret.op # "idle"
    /\ ret' = Idle
    /\ UNCHANGED <<random_state, memo, main_vars>>

Next ==
    \/ CallGeneratePassword
    \/ CallGenerateMultiplePasswords
    \/ CallCheckPasswordStrength
    \/ Return

Spec == Init /\ [][Next]_vars

(***************************************************************************)
(* MainSpec: the interactive loop.  A step is one input() call together    *)
(* with everything main() does until the next input() call or its end.     *)
(***************************************************************************)
\* str.lower() of a string of ASCII characters.
lower(text) ==
    [i \in 1..Len(text) |->
        IF isupper(text[i])
        THEN ascii_lowercase[CHOOSE k \in 1..Len(ascii_uppercase) :
                                 ascii_uppercase[k] = text[i]]
        ELSE text[i]]

\* The value of a string of decimal digits.
RECURSIVE digits_value(_)
digits_value(s) ==
    IF s = <<>> THEN 0
    ELSE 10 * digits_value(SubSeq(s, 1, Len(s) - 1))
         + (CHOOSE d \in 0..9 : digits[d + 1] = s[Len(s)])

\* int(text) for a string with no blanks: an optional sign, then one or more
\* digits; anything else is a ValueError (ok = FALSE).
int(text) ==
    LET signed == Len(text) > 0 /\ text[1] \in {"-", "+"}
        body   == IF signed THEN Tail(text) ELSE text
        ok     == Len(body) > 0 /\ \A i \in 1..Len(body) : isdigit(body[i])
    IN  [ok |-> ok,
         value |-> IF ~ok THEN 0
                   ELSE IF signed /\ text[1] = "-" THEN 0 - digits_value(body)
                   ELSE digits_value(body)]

\* int(input(...) or default): the empty string is falsy.
int_or(text, default) ==
    IF text = <<>> THEN [ok |-> TRUE, value |-> default] ELSE int(text)

\* input(...).lower() != 'n'
yes_unless_n(text) == lower(text) # <<"n">>

\* The defaults of the two numeric prompts.
DefaultLength == 12
DefaultCount == 1

\* What the user types: the decimal numeral of a one-digit number, ...
numeral(n) == <<digits[n + 1]>>

\* ... at the length prompt (the empty answer takes the default), ...
LengthInputs ==
    {<<>>, <<"x">>, <<"-","1">>} \cup {numeral(n) : n \in 0..MaxLen}

\* ... at the count prompt, ...
CountInputs ==
    {<<>>, <<"x">>, <<"-","1">>, <<"+","2">>} \cup {numeral(n) : n \in 0..MaxCount}

\* ... and at the Y/n prompts.
YesNoInputs == {<<>>, <<"n">>, <<"N">>, <<"y">>}

\* The except ValueError clause: print the error, continue.
OnValueError(message) ==
    /\ pc' = "length"
    /\ locals' = FreshLocals
    /\ event' = "ValueError"
    /\ output' = [kind |-> message, lines |-> <<>>]

\* The call with the two letter flags in each other's position.
main_generate_password_swapped(l, draws) ==
    generate_password(l.length, l.use_lowercase, l.use_uppercase,
                      l.use_digits, l.use_symbols, draws)

\* main()'s call generate_password(length, use_uppercase, use_lowercase,
\* use_digits, use_symbols), from its locals.
main_generate_password(l, draws) ==
    generate_password(l.length, l.use_uppercase, l.use_lowercase,
                      l.use_digits, l.use_symbols, draws)

\* main()'s keyword arguments for generate_multiple_passwords.
main_kwargs(l) ==
    [use_uppercase |-> l.use_uppercase, use_lowercase |-> l.use_lowercase,
     use_digits |-> l.use_digits, use_symbols |-> l.use_symbols]

\* A keyboard interrupt at one of the prompts inside the try statement.
InterruptInTry ==
    /\ pc \in {"length", "lowercase", "uppercase", "digits", "symbols", "count"}
    /\ pc' = "exited"
    /\ event' = "KeyboardInterrupt"
    /\ output' = [kind |-> "farewell", lines |-> <<>>]
    /\ UNCHANGED <<locals, ret, random_state, memo>>

\* A keyboard interrupt at "Generate more passwords?", after the try
\* statement: nothing catches it and it leaves main().
InterruptAtAgain ==
    /\ pc = "again"
    /\ pc' = "interrupted"
    /\ event' = "KeyboardInterrupt"
    /\ UNCHANGED <<locals, output, ret, random_state, memo>>

ReadLength ==
    /\ pc = "length"
    /\ \E text \in LengthInputs :
        LET v == int_or(text, DefaultLength)
        IN  IF v.ok
            THEN /\ pc' = "lowercase"
                 /\ locals' = [FreshLocals EXCEPT !.length = v.value]
                 /\ event' = "input"
                 /\ output' = [kind |-> "prompt", lines |-> <<>>]
            ELSE OnValueError("Error: invalid literal for int()")
    /\ UNCHANGED <<ret, random_state, memo>>

ReadLowercase ==
    /\ pc = "lowercase"
    /\ \E text \in YesNoInputs :
        locals' = [locals EXCEPT !.use_lowercase = yes_unless_n(text)]
    /\ pc' = "uppercase"
    /\ event' = "input"
    /\ UNCHANGED <<output, ret, random_state, memo>>

ReadUppercase ==
    /\ pc = "uppercase"
    /\ \E text \in YesNoInputs :
        locals' = [locals EXCEPT !.use_uppercase = yes_unless_n(text)]
    /\ pc' = "digits"
    /\ event' = "input"
    /\ UNCHANGED <<output, ret, random_state, memo>>

ReadDigits ==
    /\ pc = "digits"
    /\ \E text \in YesNoInputs :
        locals' = [locals EXCEPT !.use_digits = yes_unless_n(text)]
    /\ pc' = "symbols"
    /\ event' = "input"
    /\ UNCHANGED <<output, ret, random_state, memo>>

ReadSymbols ==
    /\ pc = "symbols"
    /\ \E text \in YesNoInputs :
        locals' = [locals EXCEPT !.use_symbols = yes_unless_n(text)]
    /\ pc' = "count"
    /\ event' = "input"
    /\ UNCHANGED <<output, ret, random_state, memo>>

\* The count prompt, then the generation and the printing of the results.
ReadCount ==
    /\ pc = "count"
    /\ \E text \in CountInputs :
        LET v == int_or(text, DefaultCount)
            l == [locals EXCEPT !.count = v.value]
        IN  IF ~v.ok
            THEN /\ OnValueError("Error: invalid literal for int()")
                 /\ UNCHANGED random_state
            ELSE IF l.count = 1
            THEN LET n == draws_of_password(l.length, l.use_uppercase,
                              l.use_lowercase, l.use_digits, l.use_symbols)
                 IN  /\ random_state + n <= MaxStream
                     /\ random_state' = random_state + n
                     /\ \E draws \in DrawSeqs(n) :
                         LET r == main_generate_password(l, draws)
                         IN  IF r.raised
                             THEN OnValueError("Error: At least one character type must be selected!")
                             ELSE /\ pc' = "again"
                                  /\ locals' = l
                                  /\ event' = "input"
                                  /\ output' =
                                       [kind |-> "password",
                                        lines |-> <<[password |-> r.password,
                                                     strength |-> check_password_strength(r.password)]>>]
            ELSE LET n == draws_of_batch(l.count, l.length, main_kwargs(l))
                 IN  /\ random_state + n <= MaxStream
                     /\ random_state' = random_state + n
                     /\ \E draws \in BatchDraws(l.count, l.length, main_kwargs(l)) :
                         LET r == generate_multiple_passwords(l.count, l.length,
                                                              main_kwargs(l), draws)
                         IN  IF r.raised
                             THEN OnValueError("Error: At least one character type must be selected!")
                             ELSE /\ pc' = "again"
                                  /\ locals' = l
                                  /\ event' = "input"
                                  /\ output' =
                                       [kind |-> "passwords",
                                        lines |-> [i \in 1..Len(r.passwords) |->
                                                    [password |-> r.passwords[i],
                                                     strength |-> check_password_strength(r.passwords[i])]]]
    /\ UNCHANGED <<ret, memo>>

\* "Generate more passwords? (Y/n)": 'n' ends the loop, anything else
\* starts the next iteration.
ReadAgain ==
    /\ pc = "again"
    /\ \E text \in YesNoInputs :
        IF lower(text) = <<"n">>
        THEN /\ pc' = "exited"
             /\ output' = [kind |-> "thanks", lines |-> <<>>]
             /\ UNCHANGED locals
        ELSE /\ pc' = "length"
             /\ output' = [kind |-> "prompt", lines |-> <<>>]
             /\ locals' = FreshLocals
    /\ event' = "input"
    /\ UNCHANGED <<ret, random_state, memo>>

MainNext ==
    \/ ReadLength
    \/ ReadLowercase
    \/ ReadUppercase
    \/ ReadDigits
    \/ ReadSymbols
    \/ ReadCount
    \/ ReadAgain
    \/ InterruptInTry
    \/ InterruptAtAgain

MainSpec == Init /\ [][MainNext]_vars

(***************************************************************************)
(* The properties.                                                         *)
(***************************************************************************)
AnySelected(k) ==
    k.use_lowercase \/ k.use_uppercase \/ k.use_digits \/ k.use_symbols

\* The number of classes selected.
NumSelected(k) ==
    Cardinality({f \in {"use_lowercase", "use_uppercase", "use_digits", "use_symbols"} : k[f]})

\* c is a character of one of the classes k selects.
InSelected(c, k) ==
    \/ k.use_lowercase /\ c \in Range(ascii_lowercase)
    \/ k.use_uppercase /\ c \in Range(ascii_uppercase)
    \/ k.use_digits /\ c \in Range(digits)
    \/ k.use_symbols /\ c \in Range(strength_symbols)

\* The four alphabets in the fixed order lowercase, uppercase, digits, symbols.
FixedOrder == ascii_lowercase \o ascii_uppercase \o digits \o strength_symbols

\* The pool a request's flags stand for: the fixed order, less the
\* characters of the classes not selected.
ExpectedPool(k) == SelectSeq(FixedOrder, LAMBDA c : InSelected(c, k))

\* C1: a generate_password call with at least one class selected and a
\* length L >= 0 succeeds, and its password has exactly L characters, each
\* of a selected class.
C1_PasswordLengthAndClasses ==
    (ret.op = "generate_password" /\ AnySelected(ret.kwargs) /\ ret.length >= 0)
        => /\ ~ret.raised
           /\ Len(ret.password) = ret.length
           /\ \A i \in 1..Len(ret.password) : InSelected(ret.password[i], ret.kwargs)

\* A password of lowercase letters and digits only was asked for, and one
\* with a letter and then a digit came back.
C1_Witness ==
    /\ ret.op = "generate_password"
    /\ ret.kwargs = [use_uppercase |-> FALSE, use_lowercase |-> TRUE,
                     use_digits |-> TRUE, use_symbols |-> FALSE]
    /\ ret.length = 2
    /\ ~ret.raised
    /\ Len(ret.password) = 2
    /\ islower(ret.password[1])
    /\ isdigit(ret.password[2])

\* C2: generate_password ends in the ValueError exactly when no class is
\* selected, whatever the length, negative and zero included; a call that
\* raised returned no password.
C2_ErrorIffNoClass ==
    ret.op = "generate_password"
        => /\ ret.raised <=> ~AnySelected(ret.kwargs)
           /\ ret.raised => ret.password = <<>>

\* A call with no class and a negative length raised.
C2_Witness ==
    /\ ret.op = "generate_password"
    /\ ~AnySelected(ret.kwargs)
    /\ ret.length < 0
    /\ ret.raised

C4_BatchErrorForEveryCount ==
    (ret.op = "generate_multiple_passwords" /\ ~AnySelected(ret.kwargs)
        /\ ret.count >= 0)
        => ret.raised

\* C5: a generate_multiple_passwords call with count >= 0, length L >= 0
\* and at least one class selected returns exactly count passwords, each of
\* L characters of the selected classes; for count 0 the list is empty.
C5_BatchCountLengthAndClasses ==
    (ret.op = "generate_multiple_passwords" /\ AnySelected(ret.kwargs)
        /\ ret.count >= 0 /\ ret.length >= 0)
        => /\ ~ret.raised
           /\ Len(ret.passwords) = ret.count
           /\ \A i \in 1..Len(ret.passwords) :
                /\ Len(ret.passwords[i]) = ret.length
                /\ \A j \in 1..Len(ret.passwords[i]) :
                     InSelected(ret.passwords[i][j], ret.kwargs)
           /\ ret.count = 0 => ret.passwords = <<>>

\* A batch of two one-character passwords came back, the two different.
C5_Witness ==
    /\ ret.op = "generate_multiple_passwords"
    /\ AnySelected(ret.kwargs)
    /\ ret.count = 2
    /\ ret.length = 1
    /\ Len(ret.passwords) = 2
    /\ ret.passwords[1] # ret.passwords[2]

\* C6: the pool of a generate_password call is decided by the four flags
\* alone: the selected alphabets in the order lowercase, uppercase, digits,
\* symbols; for lowercase and digits it is abcdefghijklmnopqrstuvwxyz0123456789.
C6_PoolInFixedOrder ==
    ret.op = "generate_password"
        => /\ ret.character_pool = ExpectedPool(ret.kwargs)
           /\ ret.kwargs = [use_uppercase |-> FALSE, use_lowercase |-> TRUE,
                            use_digits |-> TRUE, use_symbols |-> FALSE]
                => ret.character_pool =
                     <<"a","b","c","d","e","f","g","h","i","j","k","l","m",
                       "n","o","p","q","r","s","t","u","v","w","x","y","z",
                       "0","1","2","3","4","5","6","7","8","9">>

\* A pool of both letter classes was built: the parameters name uppercase
\* first, the pool starts with the lowercase letters.
C6_Witness ==
    /\ ret.op = "generate_password"
    /\ ret.kwargs.use_uppercase
    /\ ret.kwargs.use_lowercase
    /\ Len(ret.character_pool) >= 52
    /\ ret.character_pool[1] = "a"
    /\ ret.character_pool[27] = "A"

AllSelected(k) ==
    k.use_lowercase /\ k.use_uppercase /\ k.use_digits /\ k.use_symbols

\* C7, as claimed: the generator's and the scorer's symbol literals are the
\* same sequence of 27 characters, and the pool of all four classes has
\* 26 + 26 + 10 + 27 = 89 characters.
C7_SymbolsAre27 ==
    (ret.op = "generate_password" /\ AllSelected(ret.kwargs))
        => /\ pool_symbols = strength_symbols
           /\ Len(pool_symbols) = 27
           /\ Len(ret.character_pool) = 89

\* C7, amended: the generator's and the scorer's symbol literals are the
\* same sequence, of 26 characters, and the pool of all four classes has
\* 26 + 26 + 10 + 26 = 88 characters, the last 26 being the literal.
C7_SymbolsAre26 ==
    (ret.op = "generate_password" /\ AllSelected(ret.kwargs))
        => /\ pool_symbols = strength_symbols
           /\ Len(pool_symbols) = 26
           /\ Len(ret.character_pool) = 88
           /\ SubSeq(ret.character_pool, 63, 88) = strength_symbols

\* A pool of all four classes was built and a symbol drawn from it.
C7_Witness ==
    /\ ret.op = "generate_password"
    /\ AllSelected(ret.kwargs)
    /\ ~ret.raised
    /\ \E i \in 1..Len(ret.password) : ret.password[i] \in Range(strength_symbols)

C9_InterruptEndsGracefully ==
    /\ event = "KeyboardInterrupt" => (pc = "exited" /\ output.kind = "farewell")
    /\ event = "ValueError" => pc = "length"

\* C10: main() scoring the password it generated with at least one class
\* selected and length L >= 1: the report has no flag of a class not
\* selected, a score from 1 to the number of classes selected, a label
\* other than Very Weak, and length L.
C10_ReportOfGeneratedPassword ==
    (pc = "again" /\ output.kind = "password" /\ locals.length >= 1)
        => LET r == output.lines[1].strength
           IN  /\ ~locals.use_lowercase => ~r.has_lowercase
               /\ ~locals.use_uppercase => ~r.has_uppercase
               /\ ~locals.use_digits => ~r.has_digits
               /\ ~locals.use_symbols => ~r.has_symbols
               /\ r.score >= 1
               /\ r.score <= NumSelected(locals)
               /\ r.strength # "Very Weak"
               /\ r.length = locals.length

\* A two-character password of lowercase letters and symbols was generated
\* and scored 2, Fair.
C10_Witness ==
    /\ pc = "again"
    /\ output.kind = "password"
    /\ locals.length = 2
    /\ locals.use_lowercase /\ ~locals.use_uppercase
    /\ ~locals.use_digits /\ locals.use_symbols
    /\ output.lines[1].strength.score = 2
    /\ output.lines[1].strength.strength = "Fair"

====
